---- MODULE Spec2Model ----
(***************************************************************************)
(* Model of the Pick'Em prediction optimizer (backend/src/optimizer.py)    *)
(* and of the callers that run it on the process-wide optimizer instance   *)
(* (backend/src/routes/optimization.py), with the background job that     *)
(* stores its result, and of the match classifier                          *)
(* (backend/src/odds_ingestion.py).                                        *)
(*                                                                         *)
(* Probabilities are integer percentages (50 stands for 0.5).  A score     *)
(* distribution is kept as the histogram counts together with the total    *)
(* they are divided by, so mass k is counts[k+1] / total, exactly.         *)
(* Python's 0-based list positions are 1-based sequence positions here.    *)
(***************************************************************************)
EXTENDS Bags, FiniteSets, Integers, Sequences, TLC

\* ------------------------------------------------------------------ bounds

\* Trials per simulation: PickEmOptimizer.num_simulations, scaled down.
NumSimulations == 2

\* Longest slate of the deterministic optimize requests.
MaxN == 2

\* Longest slate handed to the simulator (beyond the histogram's 10 buckets).
MaxLong == 10

\* Most observations grouped for one match.
MaxObservations == 2

\* ---------------------------------------------------------------- constants

\* score_dist = [0.0] * 10
DistSize == 10

\* constraints.get('total_picks', 9) != 9
SwissPicks == 9

\* min(expected_score / 9.0, 1.0)
FullScore == 9

\* MatchClassificationService.safe_threshold = 0.75, in percent
SafeThreshold == 75

\* The threads that call into the global optimizer instance.
Threads == {1, 2}

\* Win probabilities for team A, in percent.  150 is an out-of-range value.
Probs == {0, 50, 100}
DetProbs == {0, 100}
BadProbs == {150}

\* np.random.random() draws uniformly from [0, 1): one value below and one
\* above 0.5 separate every probability of Probs.
RandomLevels == {25, 75}

Teams == <<"team_a", "team_b">>

\* ------------------------------------------------------------------ helpers

Min(a, b) == IF a <= b THEN a ELSE b

RECURSIVE SumSeq(_)
SumSeq(s) == IF s = <<>> THEN 0 ELSE Head(s) + SumSeq(Tail(s))

Range(s) == {s[i] : i \in DOMAIN s}

\* list(set): every iteration order of the set is possible.
Orders(S) == {o \in [1..Cardinality(S) -> S] : Range(o) = S}

\* The ids of S in ascending order.
Ascending(S) ==
    [i \in 1..Cardinality(S) |-> CHOOSE x \in S : Cardinality({y \in S : y < x}) = i - 1]

\* The orders in which a client lists the ids of S: every order of a list of
\* up to MaxN ids, the ascending order of a longer one.
ClientOrders(S) == IF Cardinality(S) <= MaxN THEN Orders(S) ELSE {Ascending(S)}

\* ------------------------------------------------------------ the optimizer

\* A validation without the check for an empty odds vector.
ValidateNonEmptyInput(input_data) ==
    IF \E i \in DOMAIN input_data.odds_vector :
            ~(0 <= input_data.odds_vector[i] /\ input_data.odds_vector[i] <= 100)
    THEN "All probabilities must be between 0 and 1"
    ELSE IF Cardinality(input_data.safe_matches) + Cardinality(input_data.unsafe_matches)
                > Len(input_data.odds_vector)
    THEN "Total matches exceed odds vector length"
    ELSE IF input_data.total_picks # SwissPicks
    THEN "Swiss format requires exactly 9 picks"
    ELSE ""

\* _validate_input: the message of the ValueError raised, "" when none is.
ValidateInput(input_data) ==
    IF input_data.odds_vector = <<>>
    THEN "Odds vector cannot be empty"
    ELSE IF \E i \in DOMAIN input_data.odds_vector :
                ~(0 <= input_data.odds_vector[i] /\ input_data.odds_vector[i] <= 100)
    THEN "All probabilities must be between 0 and 1"
    ELSE IF Cardinality(input_data.safe_matches) + Cardinality(input_data.unsafe_matches)
                > Len(input_data.odds_vector)
    THEN "Total matches exceed odds vector length"
    ELSE IF input_data.total_picks # SwissPicks
    THEN "Swiss format requires exactly 9 picks"
    ELSE ""

\* A product whose pool holds 'team_a' twice.
RECURSIVE ProductOfOneTeam(_)
ProductOfOneTeam(n) ==
    IF n = 0 THEN << <<>> >>
    ELSE LET prev == ProductOfOneTeam(n - 1)
         IN [k \in 1..(2 * Len(prev)) |-> Append(prev[((k - 1) \div 2) + 1], Teams[1])]

\* itertools.product(['team_a', 'team_b'], repeat=n): the tuples in the order
\* itertools builds them, result = [x + [y] for x in result for y in pool].
RECURSIVE Product(_)
Product(n) ==
    IF n = 0 THEN << <<>> >>
    ELSE LET prev == Product(n - 1)
         IN [k \in 1..(2 * Len(prev)) |->
                Append(prev[((k - 1) \div 2) + 1], Teams[((k - 1) % 2) + 1])]

\* _validate_swiss_constraints: the stub accepts every combination.
ValidateSwissConstraints(input_data, unsafe_combination) == TRUE

\* SelectSeq with a predicate over the elements, keeping their order.
RECURSIVE FilterValid(_, _)
FilterValid(input_data, combos) ==
    IF combos = <<>> THEN <<>>
    ELSE IF ValidateSwissConstraints(input_data, Head(combos))
         THEN <<Head(combos)>> \o FilterValid(input_data, Tail(combos))
         ELSE FilterValid(input_data, Tail(combos))

\* _generate_unsafe_combinations, with unsafe_matches = list(set) in the
\* order `unsafe_list`: each combination is dict(zip(unsafe_matches, picks)).
GenerateUnsafeCombinations(input_data, unsafe_list) ==
    IF Len(unsafe_list) = 0 THEN << <<>> >>
    ELSE LET picks == Product(Len(unsafe_list))
             zipped == [k \in DOMAIN picks |->
                          [m \in Range(unsafe_list) |->
                              picks[k][CHOOSE j \in DOMAIN unsafe_list : unsafe_list[j] = m]]]
         IN FilterValid(input_data, zipped)

\* 1 if odds_vector[i] > 0.5 else 0
HigherProbability(p) == IF p > 50 THEN 1 ELSE 0

\* _create_pick_vector raises IndexError when a match id beyond the odds
\* vector takes a branch that reads odds_vector[i].
PickVectorRaises(input_data, unsafe_combination) ==
    \E i \in DOMAIN input_data.match_ids :
        /\ i > Len(input_data.odds_vector)
        /\ \/ input_data.match_ids[i] \in input_data.safe_matches
           \/ input_data.match_ids[i] \notin DOMAIN unsafe_combination

\* _create_pick_vector: one entry per match id of `match_ids or []`.
CreatePickVector(input_data, unsafe_combination) ==
    [i \in DOMAIN input_data.match_ids |->
        LET match_id == input_data.match_ids[i]
        IN IF match_id \in input_data.safe_matches
           THEN HigherProbability(input_data.odds_vector[i])
           ELSE IF match_id \in DOMAIN unsafe_combination
           THEN (IF unsafe_combination[match_id] = "team_a" THEN 1 ELSE 0)
           ELSE HigherProbability(input_data.odds_vector[i])]

\* outcomes = np.random.random(len(odds_vector)) < np.array(odds_vector)
Outcomes(draws, odds_vector) == [i \in DOMAIN odds_vector |-> draws[i] < odds_vector[i]]

\* A score that counts the picks that differ from the outcome.
WrongPicks(outcomes, pick_vector) ==
    Cardinality({i \in 1..Min(Len(outcomes), Len(pick_vector)) :
                    \/ outcomes[i] /\ pick_vector[i] = 0
                    \/ ~outcomes[i] /\ pick_vector[i] = 1})

\* correct_picks: zip(outcomes, pick_vector) stops at the shorter of the two.
CorrectPicks(outcomes, pick_vector) ==
    Cardinality({i \in 1..Min(Len(outcomes), Len(pick_vector)) :
                    \/ outcomes[i] /\ pick_vector[i] = 1
                    \/ ~outcomes[i] /\ pick_vector[i] = 0})

\* The tally loop: only scores 0..9 are counted.
Tallied(score) == 0 <= score /\ score <= DistSize - 1

\* score_dist before normalisation; `scores` is the bag of the trials' scores.
ScoreCounts(scores) ==
    [k \in 1..DistSize |-> IF Tallied(k - 1) THEN CopiesIn(k - 1, scores) ELSE 0]

\* total = sum(score_dist)
ScoreTotal(scores) == SumSeq(ScoreCounts(scores))

\* [count / total for count in score_dist]
Normalize(scores) == [counts |-> ScoreCounts(scores), total |-> ScoreTotal(scores)]

\* sum(score_dist[target_score:]), as the numerator over dist.total.
TargetNumerator(dist, target_score) ==
    SumSeq([k \in 1..Len(dist.counts) |-> IF k - 1 >= target_score THEN dist.counts[k] ELSE 0])

\* sum(i * prob for i, prob in enumerate(score_dist)), numerator over dist.total.
ExpectedNumerator(dist) ==
    SumSeq([k \in 1..Len(dist.counts) |-> (k - 1) * dist.counts[k]])

\* a.target_probability > b.target_probability, for fractions <<num, den>>.
Greater(a, b) == a[1] * b[2] > b[1] * a[2]

TargetProbability(r) == <<r.target_num, r.score_distribution.total>>

\* A loop that replaces the best combination on every iteration.
AlwaysBetter(target_prob, best) == TRUE

\* if target_prob > best_score
Better(target_prob, best) == Greater(target_prob, best)

\* The results in the order they were evaluated, not sorted.
Unsorted(all_results) == all_results

\* sorted(all_results, key=target_probability, reverse=True): Python's sort is
\* stable, and with reverse=True equal keys keep their original order.
RECURSIVE SortedResults(_)
SortedResults(all_results) ==
    IF all_results = <<>> THEN <<>>
    ELSE LET n == Len(all_results)
             front == SortedResults(SubSeq(all_results, 1, n - 1))
             x == all_results[n]
             \* x goes after every element whose key is >= its own
             keep == Cardinality({j \in DOMAIN front :
                        ~Greater(TargetProbability(x), TargetProbability(front[j]))})
         IN SubSeq(front, 1, keep) \o <<x>> \o SubSeq(front, keep + 1, Len(front))

\* The top 3 alternatives: sorted_results[1:4], ranked from 2.
Alternatives(all_results) ==
    LET sorted_results == SortedResults(all_results)
        last == Min(4, Len(sorted_results))
    IN [i \in 1..(IF last >= 2 THEN last - 1 ELSE 0) |->
          [rank |-> i + 1,
           expected_num |-> sorted_results[i + 1].expected_num,
           total |-> sorted_results[i + 1].score_distribution.total,
           target_num |-> sorted_results[i + 1].target_num,
           picks |-> sorted_results[i + 1].combination]]

\* match_ids.index(match_id): the first position holding the id.
IndexOf(match_ids, match_id) ==
    CHOOSE i \in DOMAIN match_ids :
        /\ match_ids[i] = match_id
        /\ \A j \in 1..(i - 1) : match_ids[j] # match_id

TeamName(p) == IF p > 50 THEN "team_a" ELSE "team_b"

\* optimal_picks of _create_result, for the best combination.
OptimalPicks(input_data, combination) ==
    [i \in DOMAIN input_data.match_ids |->
        LET match_id == input_data.match_ids[i]
            idx == IndexOf(input_data.match_ids, match_id)
        IN IF match_id \in input_data.safe_matches
           THEN TeamName(input_data.odds_vector[idx])
           ELSE IF match_id \in DOMAIN combination
           THEN combination[match_id]
           ELSE TeamName(input_data.odds_vector[idx])]

\* np.cumsum(score_dist)[k], as the numerator over dist.total.
Cumulative(dist, k) == SumSeq(SubSeq(dist.counts, 1, k))

\* An interval bound that is always the lowest score.
LowestScore(dist, level) == 0

\* next(i for i, cum in enumerate(cumulative) if cum >= level / 1000)
FirstReaching(dist, level) ==
    LET hits == {k \in 1..Len(dist.counts) : Cumulative(dist, k) * 1000 >= level * dist.total}
    IN (CHOOSE k \in hits : \A j \in hits : k <= j) - 1

\* risk_score = 1.0 - abs(prob - 0.5) * 2, in percent.
RiskScore(p) == 100 - 2 * (IF p >= 50 THEN p - 50 ELSE 50 - p)

\* _generate_risk_analysis: total_risk_score and strategy_confidence, as
\* fractions <<numerator, denominator>>; total_risk_score is in percent.
GenerateRiskAnalysis(input_data, best_combination) ==
    LET covered == DOMAIN input_data.match_ids \cap DOMAIN input_data.odds_vector
        risks == [i \in DOMAIN input_data.match_ids |->
                     IF i \in covered THEN RiskScore(input_data.odds_vector[i]) ELSE 0]
        expected_num == best_combination.expected_num
        total == best_combination.score_distribution.total
    IN [total_risk_score |->
            IF input_data.match_ids # <<>>
            THEN <<SumSeq(risks), Len(input_data.match_ids)>> ELSE <<0, 1>>,
        strategy_confidence |->
            IF expected_num < FullScore * total
            THEN <<expected_num, FullScore * total>> ELSE <<1, 1>>]

\* _create_result for a best combination that is not None.
CreateResult(input_data, best_combination, all_results) ==
    [optimal_picks |-> OptimalPicks(input_data, best_combination.combination),
     expected_num |-> best_combination.expected_num,
     score_distribution |-> best_combination.score_distribution,
     confidence_interval |-> <<FirstReaching(best_combination.score_distribution, 25),
                               FirstReaching(best_combination.score_distribution, 975)>>,
     risk_analysis |-> GenerateRiskAnalysis(input_data, best_combination),
     alternative_strategies |-> Alternatives(all_results)]

\* ----------------------------------------------------------- the classifier

\* The weights of _classify_single_match, in tenths; weights.get(source, 0.1).
Weight(source) ==
    CASE source = "bookmaker_consensus" -> 4
      [] source = "hltv_elo" -> 3
      [] source = "community_picks" -> 2
      [] source = "mock_data" -> 1
      [] OTHER -> 1

\* The weight of all four configured sources, whichever are present.
ConfiguredWeight(observations) == 10

\* total_weight after the loop over the observations.
TotalWeight(observations) ==
    SumSeq([i \in DOMAIN observations |-> Weight(observations[i].source)])

\* weighted_team_a_prob and weighted_team_b_prob after the loop.
WeightedTeamA(observations) ==
    SumSeq([i \in DOMAIN observations |->
               observations[i].team_a_odds * Weight(observations[i].source)])

WeightedTeamB(observations) ==
    SumSeq([i \in DOMAIN observations |->
               observations[i].team_b_odds * Weight(observations[i].source)])

\* favorites: the side each source favors, team B when the two are level.
Favorites(observations) ==
    [i \in DOMAIN observations |->
        IF observations[i].team_a_odds > observations[i].team_b_odds
        THEN "team_a" ELSE "team_b"]

\* favorites.count(most_common_favorite)
MostCommonCount(favorites) ==
    LET count(team) == Cardinality({i \in DOMAIN favorites : favorites[i] = team})
    IN IF count("team_a") >= count("team_b") THEN count("team_a") ELSE count("team_b")

\* _classify_single_match: the dict returned, with its keys as fields.
\* Fractions are <<numerator, denominator>>; probabilities are in percent.
ClassifySingleMatch(observations) ==
    IF observations = <<>>
    THEN [is_safe |-> FALSE,
          confidence |-> <<0, 1>>,
          implied_win_rate |-> <<50, 1>>,
          consensus_favorite |-> "None",
          source_agreement |-> <<0, 1>>]
    ELSE LET total_weight == TotalWeight(observations)
             consensus_team_a_prob ==
                 IF total_weight > 0 THEN <<WeightedTeamA(observations), total_weight>>
                 ELSE <<50, 1>>
             consensus_team_b_prob ==
                 IF total_weight > 0 THEN <<WeightedTeamB(observations), total_weight>>
                 ELSE <<50, 1>>
             team_a_favored == Greater(consensus_team_a_prob, consensus_team_b_prob)
             implied_win_rate ==
                 IF team_a_favored THEN consensus_team_a_prob ELSE consensus_team_b_prob
             favorites == Favorites(observations)
         IN [is_safe |-> implied_win_rate[1] >= SafeThreshold * implied_win_rate[2],
             confidence |-> <<2 * Min(implied_win_rate[1],
                                      100 * implied_win_rate[2] - implied_win_rate[1]),
                              implied_win_rate[2]>>,
             implied_win_rate |-> implied_win_rate,
             consensus_favorite |-> IF team_a_favored THEN "team_a" ELSE "team_b",
             source_agreement |-> <<MostCommonCount(favorites), Len(favorites)>>,
             consensus_team_a_prob |-> consensus_team_a_prob,
             consensus_team_b_prob |-> consensus_team_b_prob,
             sources_count |-> Len(observations)]

\* ------------------------------------------------------------------- inputs

\* The sources of OddsIngestionService, and one the weights do not list.
Sources == {"bookmaker_consensus", "hltv_elo", "community_picks", "mock_data", "other"}

\* A source's probabilities for the two teams, in percent: pairs that sum to
\* 1, and one pair of pick percentages that does not.
OddsPairs == {<<a, 100 - a>> : a \in {0, 25, 50, 75, 100}} \cup {<<60, 30>>}

\* OddsData, as far as the classifier reads it.
Observations ==
    {[source |-> src, team_a_odds |-> pair[1], team_b_odds |-> pair[2]] :
        src \in Sources, pair \in OddsPairs}

Ids(n) == [i \in 1..n |-> i]

\* The match-id lists tried with a slate of n matches: the matching list, one
\* repeating the first id, one match short, one match long, and None
\* (`match_ids or []` reads None as the empty list).
MatchIdLists(n) ==
    IF n = 0 THEN {<<>>}
    ELSE {Ids(n), [Ids(n) EXCEPT ![n] = 1], SubSeq(Ids(n), 1, n - 1),
          Append(Ids(n), n + 1), <<>>}

SafeChoices(n, unsafe) == {{}, (1..n) \ unsafe, {1} \cap (1..n)}

Targets == {1, 2}

Request(op, odds, ids, safe, unsafe, target, total, picks) ==
    [op |-> op, odds_vector |-> odds, match_ids |-> ids, safe_matches |-> safe,
     unsafe_matches |-> unsafe, target_score |-> target, total_picks |-> total,
     picks |-> picks]

NoInput == Request("none", <<>>, <<>>, {}, {}, 0, 0, <<>>)

\* Slates whose outcomes are certain, with every partition into safe/unsafe.
DetRequests ==
    {Request("optimize", odds, ids, safe, unsafe, target, SwissPicks, <<>>) :
        odds \in UNION {[1..n -> DetProbs] : n \in 0..MaxN},
        ids \in UNION {MatchIdLists(n) : n \in 0..MaxN},
        safe \in SUBSET (1..MaxN), unsafe \in SUBSET (1..MaxN), target \in Targets}

WellFormed(r) ==
    /\ r.match_ids \in MatchIdLists(Len(r.odds_vector))
    /\ r.unsafe_matches \subseteq 1..Len(r.odds_vector)
    /\ r.safe_matches \in SafeChoices(Len(r.odds_vector), r.unsafe_matches)

\* Slates of one or two matches with a coin-flip match among them.
CoinRequests ==
    {Request("optimize", odds, ids, safe, unsafe, target, SwissPicks, <<>>) :
        odds \in {o \in [1..1 -> Probs] \cup [1..2 -> Probs] : 50 \in Range(o)},
        ids \in {<<1>>, <<1, 2>>, <<1, 1>>},
        safe \in SUBSET (1..2), unsafe \in SUBSET (1..2), target \in Targets}

CoinWellFormed(r) ==
    /\ Len(r.match_ids) = Len(r.odds_vector)
    /\ r.unsafe_matches \subseteq 1..Len(r.odds_vector)
    /\ r.safe_matches \in SafeChoices(Len(r.odds_vector), r.unsafe_matches)

\* Requests _validate_input rejects: for a probability, for more safe and
\* unsafe matches than odds, or for total_picks.
BadRequests ==
    {Request("optimize", <<p>>, <<1>>, {}, {1}, 1, SwissPicks, <<>>) : p \in BadProbs}
    \cup {Request("optimize", <<100>>, <<1>>, {1}, {2}, 1, SwissPicks, <<>>)}
    \cup {Request("optimize", <<100>>, <<1>>, {}, {1}, 1, SwissPicks - 1, <<>>)}

\* Slates of 9 and more certain matches, none marked safe or unsafe.
LongRequests ==
    {Request("optimize", [i \in 1..n |-> p], Ids(n), {}, {}, 5, SwissPicks, <<>>) :
        n \in (DistSize - 1)..MaxLong, p \in DetProbs}

OptimizeRequests ==
    {r \in DetRequests : WellFormed(r)} \cup {r \in CoinRequests : CoinWellFormed(r)}
    \cup BadRequests \cup LongRequests

\* simulate_scenarios: a scenario is simulated when len(picks) == len(match_odds)
\* and match_odds is not empty.
ScenarioRequests ==
    {Request("simulate", odds, <<>>, {}, {}, 0, SwissPicks, picks) :
        odds \in UNION {[1..n -> Probs] : n \in 1..MaxN},
        picks \in UNION {[1..n -> {0, 1}] : n \in 1..MaxN}}

LongScenarios ==
    {Request("simulate", [i \in 1..n |-> p], <<>>, {}, {}, 0, SwissPicks, [i \in 1..n |-> b]) :
        n \in (DistSize - 1)..MaxLong, p \in Probs, b \in {0, 1}}

SimulateRequests ==
    {r \in ScenarioRequests : Len(r.picks) = Len(r.odds_vector)} \cup LongScenarios

\* The input run_optimization_job builds for a job: one odds entry and one id
\* per match row, every match in the job's safe or unsafe picks.
JobRequest(odds, safe, total) ==
    Request("optimize", odds, Ids(Len(odds)), safe, (1..Len(odds)) \ safe, 1, total, <<>>)

\* Jobs over certain matches; a job whose one match has no active odds (the
\* 50/50 fallback); a job with a stored probability out of range; a job whose
\* constraints ask for 8 picks; and a job of 10 certain matches whose second
\* candidate scores 10.
JobRequests ==
    {JobRequest(odds, safe, SwissPicks) :
        odds \in UNION {[1..n -> DetProbs] : n \in 0..MaxN}, safe \in SUBSET (1..MaxN)}
    \cup {JobRequest(<<50>>, {}, SwissPicks)}
    \cup {JobRequest(<<p>>, {}, SwissPicks) : p \in BadProbs}
    \cup {JobRequest(<<100>>, {1}, SwissPicks - 1)}
    \cup {JobRequest([i \in 1..DistSize |-> IF i = 1 THEN 0 ELSE 100], 2..DistSize, SwissPicks)}

\* -------------------------------------------------------------------- state

VARIABLES
    rng,                  \* np.random's global generator: values drawn so far
    pc,                   \* where each thread's call stands
    input,                \* input_data of the call
    unsafe_combinations,  \* optimize: the enumerated combinations
    pick_vector,          \* the pick vector being simulated
    scores,               \* _monte_carlo_simulation: the trials' scores (a bag)
    all_results,          \* optimize: one result per evaluated combination
    best_combination,     \* optimize: position in all_results, 0 for None
    best_score,           \* optimize: <<numerator, denominator>>
    result,               \* what the call returned
    error,                \* the exception the call raised, "" for none
    simulations,          \* _monte_carlo_simulation invocations of the call
    job,                  \* the OptimizationJob row each thread was started for
    worker,               \* the thread of run_optimization_job for that row
    match_details,        \* what get_optimization_result answered for that row
    match_odds,           \* classifier: the observations grouped for one match
    classification,       \* classifier: what _classify_single_match returned
    match_status,         \* picks: the status of each Match row
    pick_table,           \* picks: the user's Pick row for each match
    handler               \* picks: the request each handler thread is serving

classifier_vars == <<match_odds, classification>>

job_vars == <<job, worker, match_details>>

picks_vars == <<match_status, pick_table, handler>>

optimizer_vars == <<rng, pc, input, unsafe_combinations, pick_vector, scores, all_results,
                    best_combination, best_score, result, error, simulations>>

vars == <<optimizer_vars, job_vars, classifier_vars, picks_vars>>

NoResult == [kind |-> "none"]

\* _classify_single_match has not been called.
NoClassification == [kind |-> "none"]

\* No OptimizationJob row: status "none" stands for the row not existing yet.
NoJob ==
    [status |-> "none", request |-> NoInput, safe_picks |-> <<>>, unsafe_picks |-> <<>>,
     result |-> NoResult, error_message |-> ""]

\* The matches the picks are made for.
PickMatches == {1, 2}

\* No Pick row for a match.
NoPick == [exists |-> FALSE]

\* A handler thread that serves no request.
NoRequest == [op |-> "none", phase |-> "idle"]

Init ==
    /\ rng = 0
    /\ pc = [t \in Threads |-> "idle"]
    /\ input = [t \in Threads |-> NoInput]
    /\ unsafe_combinations = [t \in Threads |-> <<>>]
    /\ pick_vector = [t \in Threads |-> <<>>]
    /\ scores = [t \in Threads |-> EmptyBag]
    /\ all_results = [t \in Threads |-> <<>>]
    /\ best_combination = [t \in Threads |-> 0]
    /\ best_score = [t \in Threads |-> <<-1, 1>>]
    /\ result = [t \in Threads |-> NoResult]
    /\ error = [t \in Threads |-> ""]
    /\ simulations = [t \in Threads |-> 0]
    /\ job = [t \in Threads |-> NoJob]
    /\ worker = [t \in Threads |-> "none"]
    /\ match_details = [t \in Threads |-> NoResult]
    /\ match_status = [m \in PickMatches |-> "upcoming"]
    /\ pick_table = [m \in PickMatches |-> NoPick]
    /\ handler = [t \in Threads |-> NoRequest]
    /\ match_odds = <<>>
    /\ classification = NoClassification

\* ------------------------------------------------------------------ actions

\* optimize, up to the evaluation loop: _validate_input passes and
\* _generate_unsafe_combinations enumerates list(unsafe_matches).
Optimize(t, requests) ==
    /\ pc[t] = "idle"
    /\ \E input_data \in requests :
        /\ ValidateInput(input_data) = ""
        /\ \E unsafe_list \in Orders(input_data.unsafe_matches) :
              unsafe_combinations' = [unsafe_combinations EXCEPT ![t] =
                  GenerateUnsafeCombinations(input_data, unsafe_list)]
        /\ input' = [input EXCEPT ![t] = input_data]
    /\ pc' = [pc EXCEPT ![t] = "evaluate"]
    /\ UNCHANGED <<picks_vars, classifier_vars, job_vars, rng, pick_vector, scores, all_results, best_combination,
                   best_score, result, error, simulations>>

\* An optimize that validates only after a first run of the simulator.
RejectedAfterSimulation(t, requests) ==
    /\ pc[t] = "idle"
    /\ \E input_data \in requests :
        /\ ValidateInput(input_data) # ""
        /\ input' = [input EXCEPT ![t] = input_data]
        /\ error' = [error EXCEPT ![t] = ValidateInput(input_data)]
    /\ simulations' = [simulations EXCEPT ![t] = @ + 1]
    /\ pc' = [pc EXCEPT ![t] = "failed"]
    /\ UNCHANGED <<picks_vars, classifier_vars, job_vars, rng, unsafe_combinations, pick_vector, scores, all_results,
                   best_combination, best_score, result>>

\* optimize: _validate_input raises, the exception is logged and re-raised.
OptimizeRejected(t, requests) ==
    /\ pc[t] = "idle"
    /\ \E input_data \in requests :
        /\ ValidateInput(input_data) # ""
        /\ input' = [input EXCEPT ![t] = input_data]
        /\ error' = [error EXCEPT ![t] = ValidateInput(input_data)]
    /\ pc' = [pc EXCEPT ![t] = "failed"]
    /\ UNCHANGED <<picks_vars, classifier_vars, job_vars, rng, unsafe_combinations, pick_vector, scores, all_results,
                   best_combination, best_score, result, simulations>>

\* The loop body up to the call of _monte_carlo_simulation.
NextCombination(t) ==
    /\ pc[t] = "evaluate"
    /\ Len(all_results[t]) < Len(unsafe_combinations[t])
    /\ LET combination == unsafe_combinations[t][Len(all_results[t]) + 1]
       IN /\ ~PickVectorRaises(input[t], combination)
          /\ pick_vector' = [pick_vector EXCEPT ![t] = CreatePickVector(input[t], combination)]
    /\ scores' = [scores EXCEPT ![t] = EmptyBag]
    /\ simulations' = [simulations EXCEPT ![t] = @ + 1]
    /\ pc' = [pc EXCEPT ![t] = "simulate"]
    /\ UNCHANGED <<picks_vars, classifier_vars, job_vars, rng, input, unsafe_combinations, all_results, best_combination,
                   best_score, result, error>>

\* _create_pick_vector raises IndexError.
PickVectorError(t) ==
    /\ pc[t] = "evaluate"
    /\ Len(all_results[t]) < Len(unsafe_combinations[t])
    /\ PickVectorRaises(input[t], unsafe_combinations[t][Len(all_results[t]) + 1])
    /\ error' = [error EXCEPT ![t] = "IndexError"]
    /\ pc' = [pc EXCEPT ![t] = "failed"]
    /\ UNCHANGED <<picks_vars, classifier_vars, job_vars, rng, input, unsafe_combinations, pick_vector, scores, all_results,
                   best_combination, best_score, result, simulations>>

\* simulate_scenarios: _monte_carlo_simulation on a caller's pick vector.
Simulate(t, requests) ==
    /\ pc[t] = "idle"
    /\ \E input_data \in requests :
        /\ input' = [input EXCEPT ![t] = input_data]
        /\ pick_vector' = [pick_vector EXCEPT ![t] = input_data.picks]
    /\ scores' = [scores EXCEPT ![t] = EmptyBag]
    /\ simulations' = [simulations EXCEPT ![t] = @ + 1]
    /\ pc' = [pc EXCEPT ![t] = "simulate"]
    /\ UNCHANGED <<picks_vars, classifier_vars, job_vars, rng, unsafe_combinations, all_results, best_combination,
                   best_score, result, error>>

\* One iteration of `for _ in range(self.num_simulations)`: the draw from the
\* global generator, the outcomes and the score.
Trial(t) ==
    /\ pc[t] = "simulate"
    /\ BagCardinality(scores[t]) < NumSimulations
    /\ \E draws \in [1..Len(input[t].odds_vector) -> RandomLevels] :
          scores' = [scores EXCEPT ![t] = @ (+) SetToBag(
              {CorrectPicks(Outcomes(draws, input[t].odds_vector), pick_vector[t])})]
    /\ rng' = rng + Len(input[t].odds_vector)
    /\ UNCHANGED <<picks_vars, classifier_vars, job_vars, pc, input, unsafe_combinations, pick_vector, all_results,
                   best_combination, best_score, result, error, simulations>>

\* The rest of the loop body: the simulation returns its distribution, the
\* result is appended and the best combination updated.
RecordResult(t) ==
    /\ pc[t] = "simulate"
    /\ input[t].op = "optimize"
    /\ BagCardinality(scores[t]) = NumSimulations
    /\ ScoreTotal(scores[t]) # 0
    /\ LET score_dist == Normalize(scores[t])
           res == [combination |-> unsafe_combinations[t][Len(all_results[t]) + 1],
                   pick_vector |-> pick_vector[t],
                   score_distribution |-> score_dist,
                   target_num |-> TargetNumerator(score_dist, input[t].target_score),
                   expected_num |-> ExpectedNumerator(score_dist)]
           better == Better(TargetProbability(res), best_score[t])
       IN /\ all_results' = [all_results EXCEPT ![t] = Append(@, res)]
          /\ best_score' = [best_score EXCEPT ![t] =
                               IF better THEN TargetProbability(res) ELSE @]
          /\ best_combination' = [best_combination EXCEPT ![t] =
                               IF better THEN Len(all_results[t]) + 1 ELSE @]
    /\ pc' = [pc EXCEPT ![t] = "evaluate"]
    /\ UNCHANGED <<picks_vars, classifier_vars, job_vars, rng, input, unsafe_combinations, pick_vector, scores, result,
                   error, simulations>>

\* simulate_scenarios receives the distribution.
ScenarioResult(t) ==
    /\ pc[t] = "simulate"
    /\ input[t].op = "simulate"
    /\ BagCardinality(scores[t]) = NumSimulations
    /\ ScoreTotal(scores[t]) # 0
    /\ result' = [result EXCEPT ![t] =
                     [kind |-> "distribution", score_distribution |-> Normalize(scores[t])]]
    /\ pc' = [pc EXCEPT ![t] = "done"]
    /\ UNCHANGED <<picks_vars, classifier_vars, job_vars, rng, input, unsafe_combinations, pick_vector, scores, all_results,
                   best_combination, best_score, error, simulations>>

\* count / total with total = 0: ZeroDivisionError.
SimulationError(t) ==
    /\ pc[t] = "simulate"
    /\ BagCardinality(scores[t]) = NumSimulations
    /\ ScoreTotal(scores[t]) = 0
    /\ error' = [error EXCEPT ![t] = "ZeroDivisionError"]
    /\ pc' = [pc EXCEPT ![t] = "failed"]
    /\ UNCHANGED <<picks_vars, classifier_vars, job_vars, rng, input, unsafe_combinations, pick_vector, scores, all_results,
                   best_combination, best_score, result, simulations>>

\* After the loop: _create_result, which raises ValueError without a best
\* combination.
Finish(t) ==
    /\ pc[t] = "evaluate"
    /\ Len(all_results[t]) = Len(unsafe_combinations[t])
    /\ IF best_combination[t] = 0
       THEN /\ error' = [error EXCEPT ![t] = "No valid combinations found"]
            /\ pc' = [pc EXCEPT ![t] = "failed"]
            /\ UNCHANGED result
       ELSE /\ result' = [result EXCEPT ![t] =
                   [kind |-> "result",
                    value |-> CreateResult(input[t], all_results[t][best_combination[t]],
                                           all_results[t])]]
            /\ pc' = [pc EXCEPT ![t] = "done"]
            /\ UNCHANGED error
    /\ UNCHANGED <<picks_vars, classifier_vars, job_vars, rng, input, unsafe_combinations, pick_vector, scores, all_results,
                   best_combination, best_score, simulations>>

\* create_optimization_job: the row is committed with status 'pending' and
\* the thread of run_optimization_job is started.  The request is the input
\* the thread will build, its matches numbered in the order the query returns
\* them; safe_picks and unsafe_picks are the lists in the client's order.
CreateOptimizationJob(t, requests) ==
    /\ job[t].status = "none"
    /\ pc[t] = "idle"
    /\ \E input_data \in requests :
          /\ input_data.safe_matches \subseteq 1..Len(input_data.odds_vector)
          /\ \E safe_list \in ClientOrders(input_data.safe_matches),
                unsafe_list \in ClientOrders(input_data.unsafe_matches) :
                job' = [job EXCEPT ![t] = [NoJob EXCEPT !.status = "pending",
                                                           !.request = input_data,
                                                           !.safe_picks = safe_list,
                                                           !.unsafe_picks = unsafe_list]]
    /\ worker' = [worker EXCEPT ![t] = "started"]
    /\ UNCHANGED <<optimizer_vars, classifier_vars, picks_vars, match_details>>

\* A thread that sets 'running' whatever status the job has.
RerunOptimizationJob(t) ==
    /\ job[t].status \in {"pending", "completed", "failed"}
    /\ job' = [job EXCEPT ![t].status = "running"]
    /\ UNCHANGED <<optimizer_vars, classifier_vars, picks_vars, worker, match_details>>

\* run_optimization_job up to the call of optimize: the job is fetched and
\* its status committed as 'running'.
RunOptimizationJob(t) ==
    /\ worker[t] = "started"
    /\ job[t].status = "pending"
    /\ job' = [job EXCEPT ![t].status = "running"]
    /\ UNCHANGED <<optimizer_vars, classifier_vars, picks_vars, worker, match_details>>

\* run_optimization_job when the thread's database access raises:
\* OptimizationJob.query.get fails in the try block and again in the
\* `except Exception` handler, whose own failure is only logged.  The thread
\* ends and the row is left as it was.
RunOptimizationJobRaises(t) ==
    /\ worker[t] = "started"
    /\ job[t].status = "pending"
    /\ worker' = [worker EXCEPT ![t] = "ended"]
    /\ UNCHANGED <<optimizer_vars, classifier_vars, picks_vars, job, match_details>>

\* The handler of a failed job that stores what the call had evaluated.
JobFailedWithPartialResult(t) ==
    /\ job[t].status = "running"
    /\ pc[t] = "failed"
    /\ job' = [job EXCEPT ![t].status = "failed", ![t].error_message = error[t],
                          ![t].result = [kind |-> "partial", value |-> all_results[t]]]
    /\ worker' = [worker EXCEPT ![t] = "ended"]
    /\ UNCHANGED <<optimizer_vars, classifier_vars, picks_vars, match_details>>

\* run_optimization_job after optimize returned: the result is stored with
\* match_id_order and the status committed as 'completed'.
JobCompleted(t) ==
    /\ job[t].status = "running"
    /\ pc[t] = "done"
    /\ job' = [job EXCEPT ![t].status = "completed",
                          ![t].result = [kind |-> "result", value |-> result[t].value,
                                         match_id_order |-> input[t].match_ids]]
    /\ worker' = [worker EXCEPT ![t] = "ended"]
    /\ UNCHANGED <<optimizer_vars, classifier_vars, picks_vars, match_details>>

\* run_optimization_job, `except Exception`: the job is fetched again and
\* committed as 'failed' with the message of the exception.
JobFailed(t) ==
    /\ job[t].status = "running"
    /\ pc[t] = "failed"
    /\ job' = [job EXCEPT ![t].status = "failed", ![t].error_message = error[t]]
    /\ worker' = [worker EXCEPT ![t] = "ended"]
    /\ UNCHANGED <<optimizer_vars, classifier_vars, picks_vars, match_details>>

\* match_details of get_optimization_result: the i-th optimal pick is paired
\* with the i-th id of job.safe_picks + job.unsafe_picks.
MatchDetails(row) ==
    LET all_match_ids == row.safe_picks \o row.unsafe_picks
        optimal_picks == row.result.value.optimal_picks
    IN [i \in 1..Min(Len(optimal_picks), Len(all_match_ids)) |->
           [match_id |-> all_match_ids[i],
            selected_team |-> optimal_picks[i],
            is_safe |-> all_match_ids[i] \in Range(row.safe_picks)]]

\* get_optimization_result: 400 unless the job is completed, 404 without a
\* result, otherwise the stored result with match_details.
GetOptimizationResult(t) ==
    /\ job[t].status # "none"
    /\ match_details' = [match_details EXCEPT ![t] =
          IF job[t].status # "completed" THEN [kind |-> "not completed"]
          ELSE IF job[t].result = NoResult THEN [kind |-> "no result"]
          ELSE [kind |-> "details", value |-> MatchDetails(job[t])]]
    /\ UNCHANGED <<optimizer_vars, classifier_vars, picks_vars, job, worker>>

\* ---------------------------------------------------------------- the picks

Statuses == {"upcoming", "live", "completed", "cancelled"}

\* Every status counts as open.
AnyStatus(status) == TRUE

\* match.status in ['upcoming', 'live']
MatchOpen(status) == status \in {"upcoming", "live"}

\* A stored Pick row.
Pick(selected_team, confidence, pick_type, is_locked) ==
    [exists |-> TRUE, selected_team |-> selected_team, confidence |-> confidence,
     pick_type |-> pick_type, is_locked |-> is_locked]

DefaultConfidence == 50

\* The bodies of update_pick: a team, valid or not, or a confidence.
UpdateBodies ==
    {[selected_team |-> team] : team \in Range(Teams) \cup {"team_c"}}
        \cup {[confidence |-> 80]}

\* The picks lists of bulk_create_picks: a team for each match of the list.
BulkPicks == UNION {[S -> Range(Teams)] : S \in (SUBSET PickMatches) \ {{}}}

\* The statuses a match can move to; no handler of the repository changes a
\* status, the rows are updated from outside.
NextStatuses(status) ==
    CASE status = "upcoming" -> {"live", "cancelled"}
      [] status = "live" -> {"completed", "cancelled"}
      [] OTHER -> {}

\* The handler has no request in flight.
Free(t) == handler[t].phase \in {"idle", "done"}

\* A request that was answered.
Answered(op, response, closed, errors) ==
    [op |-> op, phase |-> "done", response |-> response, closed |-> closed, errors |-> errors]

\* A request whose session holds changes not yet committed: `writes` maps a
\* match to the change of its Pick row, with the row as it was loaded.
Pending(op, response, writes, closed, errors) ==
    [op |-> op, phase |-> "write", response |-> response, writes |-> writes,
     stale |-> {}, closed |-> closed, errors |-> errors]

Insert(new) == [kind |-> "insert", loaded |-> NoPick, new |-> new]

Update(loaded, new) == [kind |-> "update", loaded |-> loaded, new |-> new]

Delete(loaded) == [kind |-> "delete", loaded |-> loaded, new |-> NoPick]

\* The UPDATE of the unit of work: only the columns whose value differs from
\* the loaded one are written, by primary key.
Flush(row, write) ==
    Pick(IF write.new.selected_team # write.loaded.selected_team
             THEN write.new.selected_team ELSE row.selected_team,
         IF write.new.confidence # write.loaded.confidence
             THEN write.new.confidence ELSE row.confidence,
         IF write.new.pick_type # write.loaded.pick_type
             THEN write.new.pick_type ELSE row.pick_type,
         IF write.new.is_locked # write.loaded.is_locked
             THEN write.new.is_locked ELSE row.is_locked)

\* A match's status is changed from outside, between two requests.
MatchStatusChanges ==
    /\ \A t \in Threads : Free(t)
    /\ \E m \in PickMatches : \E status \in NextStatuses(match_status[m]) :
          match_status' = [match_status EXCEPT ![m] = status]
    /\ UNCHANGED <<optimizer_vars, job_vars, classifier_vars, pick_table, handler>>

\* create_or_update_pick up to db.session.commit().
CreateOrUpdatePick(t) ==
    /\ Free(t)
    /\ \E m \in PickMatches, selected_team \in Range(Teams) \cup {"team_c"} :
          LET op == "create_or_update_pick"
              closed == IF MatchOpen(match_status[m]) THEN {} ELSE {m}
              existing_pick == pick_table[m]
          IN handler' = [handler EXCEPT ![t] =
                 IF selected_team \notin Range(Teams) THEN Answered(op, 400, closed, {})
                 ELSE IF ~MatchOpen(match_status[m]) THEN Answered(op, 400, closed, {})
                 ELSE IF existing_pick.exists
                 THEN IF existing_pick.is_locked THEN Answered(op, 400, closed, {m})
                      ELSE Pending(op, 200,
                                   m :> Update(existing_pick,
                                               [existing_pick EXCEPT
                                                    !.selected_team = selected_team]),
                                   closed, {})
                 ELSE Pending(op, 201,
                              m :> Insert(Pick(selected_team, DefaultConfidence, "manual", FALSE)),
                              closed, {})]
    /\ UNCHANGED <<optimizer_vars, job_vars, classifier_vars, match_status, pick_table>>

\* update_pick up to db.session.commit(); the pick is named by its match.
UpdatePick(t) ==
    /\ Free(t)
    /\ \E m \in PickMatches, data \in UpdateBodies :
          LET op == "update_pick"
              closed == IF MatchOpen(match_status[m]) THEN {} ELSE {m}
              pick == pick_table[m]
          IN handler' = [handler EXCEPT ![t] =
                 IF ~pick.exists THEN Answered(op, 404, closed, {})
                 ELSE IF pick.is_locked THEN Answered(op, 400, closed, {m})
                 ELSE IF ~MatchOpen(match_status[m]) THEN Answered(op, 400, closed, {})
                 ELSE IF "selected_team" \in DOMAIN data
                 THEN IF data.selected_team \notin Range(Teams)
                      THEN Answered(op, 400, closed, {})
                      ELSE Pending(op, 200,
                                   m :> Update(pick, [pick EXCEPT
                                                          !.selected_team = data.selected_team]),
                                   closed, {})
                 ELSE Pending(op, 200,
                              m :> Update(pick, [pick EXCEPT !.confidence = data.confidence]),
                              closed, {})]
    /\ UNCHANGED <<optimizer_vars, job_vars, classifier_vars, match_status, pick_table>>

\* delete_pick up to db.session.commit().
DeletePick(t) ==
    /\ Free(t)
    /\ \E m \in PickMatches :
          LET op == "delete_pick"
              closed == IF MatchOpen(match_status[m]) THEN {} ELSE {m}
              pick == pick_table[m]
          IN handler' = [handler EXCEPT ![t] =
                 IF ~pick.exists THEN Answered(op, 404, closed, {})
                 ELSE IF pick.is_locked THEN Answered(op, 400, closed, {m})
                 ELSE IF ~MatchOpen(match_status[m]) THEN Answered(op, 400, closed, {})
                 ELSE Pending(op, 200, m :> Delete(pick), closed, {})]
    /\ UNCHANGED <<optimizer_vars, job_vars, classifier_vars, match_status, pick_table>>

\* bulk_create_picks up to db.session.commit(): a match that is not open or
\* whose pick is locked goes to `errors`, the other picks are updated or
\* created with pick_type 'optimized'.
BulkCreatePicks(t) ==
    /\ Free(t)
    /\ \E picks_data \in BulkPicks :
          LET closed == {m \in DOMAIN picks_data : ~MatchOpen(match_status[m])}
              locked == {m \in DOMAIN picks_data \ closed :
                            pick_table[m].exists /\ pick_table[m].is_locked}
              writes == [m \in DOMAIN picks_data \ (closed \cup locked) |->
                            IF pick_table[m].exists
                            THEN Update(pick_table[m],
                                        [pick_table[m] EXCEPT
                                             !.selected_team = picks_data[m],
                                             !.confidence = DefaultConfidence,
                                             !.pick_type = "optimized"])
                            ELSE Insert(Pick(picks_data[m], DefaultConfidence,
                                             "optimized", FALSE))]
          IN handler' = [handler EXCEPT ![t] =
                 Pending("bulk_create_picks", 200, writes, closed, closed \cup locked)]
    /\ UNCHANGED <<optimizer_vars, job_vars, classifier_vars, match_status, pick_table>>

\* lock_user_picks up to db.session.commit(): every unlocked pick of the
\* user is marked locked.
LockUserPicks(t) ==
    /\ Free(t)
    /\ LET unlocked == {m \in PickMatches : pick_table[m].exists /\ ~pick_table[m].is_locked}
           writes == [m \in unlocked |->
                         Update(pick_table[m], [pick_table[m] EXCEPT !.is_locked = TRUE])]
       IN handler' = [handler EXCEPT ![t] = Pending("lock_user_picks", 200, writes, {}, {})]
    /\ UNCHANGED <<optimizer_vars, job_vars, classifier_vars, match_status, pick_table>>

\* unlock_user_picks up to db.session.commit(): a locked pick is unlocked
\* if its match is open and skipped otherwise.
UnlockUserPicks(t) ==
    /\ Free(t)
    /\ LET locked == {m \in PickMatches : pick_table[m].exists /\ pick_table[m].is_locked}
           closed == {m \in locked : ~MatchOpen(match_status[m])}
           writes == [m \in locked \ closed |->
                         Update(pick_table[m], [pick_table[m] EXCEPT !.is_locked = FALSE])]
       IN handler' = [handler EXCEPT ![t] = Pending("unlock_user_picks", 200, writes, closed, {})]
    /\ UNCHANGED <<optimizer_vars, job_vars, classifier_vars, match_status, pick_table>>

\* db.session.commit() of a picks handler.  An UPDATE or DELETE of a row
\* that was deleted since it was loaded, or an INSERT of a second pick for
\* the same user and match, raises; the handler rolls back and answers 500.
\* Otherwise the changes are stored and the handler answers.
Commit(t) ==
    /\ handler[t].phase = "write"
    /\ LET h == handler[t]
           raises == \E m \in DOMAIN h.writes :
                         \/ h.writes[m].kind \in {"update", "delete"} /\ m \in h.stale
                         \/ h.writes[m].kind = "insert" /\ pick_table[m].exists
           deleted == {m \in DOMAIN h.writes : h.writes[m].kind = "delete"}
       IN IF raises
          THEN /\ handler' = [handler EXCEPT ![t] = Answered(h.op, 500, h.closed, h.errors)]
               /\ UNCHANGED pick_table
          ELSE /\ pick_table' =
                      [m \in PickMatches |->
                          IF m \notin DOMAIN h.writes THEN pick_table[m]
                          ELSE IF h.writes[m].kind = "insert" THEN h.writes[m].new
                          ELSE IF h.writes[m].kind = "delete" THEN NoPick
                          ELSE Flush(pick_table[m], h.writes[m])]
               /\ handler' =
                      [u \in Threads |->
                          IF u = t THEN Answered(h.op, h.response, h.closed, h.errors)
                          ELSE IF handler[u].phase = "write"
                          THEN [handler[u] EXCEPT
                                    !.stale = @ \cup (deleted \cap DOMAIN handler[u].writes)]
                          ELSE handler[u]]
    /\ UNCHANGED <<optimizer_vars, job_vars, classifier_vars, match_status>>

\* classify_matches: one more observation joins the group of the match.
GroupOdds ==
    /\ classification = NoClassification
    /\ Len(match_odds) < MaxObservations
    /\ \E odds \in Observations : match_odds' = Append(match_odds, odds)
    /\ UNCHANGED <<optimizer_vars, job_vars, picks_vars, classification>>

\* _classify_single_match on the observations grouped so far; a direct call
\* may pass none.
Classify ==
    /\ classification = NoClassification
    /\ classification' = [kind |-> "classification",
                          value |-> ClassifySingleMatch(match_odds)]
    /\ UNCHANGED <<optimizer_vars, job_vars, picks_vars, match_odds>>

\* ----------------------------------------------------------- specifications

\* One call on the optimizer, by one thread.
Next ==
    \/ Optimize(1, OptimizeRequests)
    \/ OptimizeRejected(1, OptimizeRequests)
    \/ Simulate(1, SimulateRequests)
    \/ NextCombination(1)
    \/ PickVectorError(1)
    \/ Trial(1)
    \/ RecordResult(1)
    \/ ScenarioResult(1)
    \/ SimulationError(1)
    \/ Finish(1)

Spec == Init /\ [][Next]_vars

\* The requests of the two-call specifications: a coin-flip match left unsafe,
\* the requests _validate_input rejects, and a match-id list longer than the
\* odds vector.
SharedOptimizeRequests ==
    {Request("optimize", <<50>>, <<1>>, {}, {1}, 1, SwissPicks, <<>>),
     Request("optimize", <<100>>, <<1, 2>>, {}, {}, 1, SwissPicks, <<>>)}
    \cup BadRequests

\* A coin-flip scenario, and a slate of 10 certain matches picked right.
SharedSimulateRequests ==
    {Request("simulate", <<50>>, <<>>, {}, {}, 0, SwissPicks, <<1>>),
     Request("simulate", [i \in 1..DistSize |-> 100], <<>>, {}, {}, 0, SwissPicks,
             [i \in 1..DistSize |-> 1])}

\* A step of thread t's call.
Step(t) ==
    \/ Optimize(t, SharedOptimizeRequests)
    \/ OptimizeRejected(t, SharedOptimizeRequests)
    \/ Simulate(t, SharedSimulateRequests)
    \/ NextCombination(t)
    \/ PickVectorError(t)
    \/ Trial(t)
    \/ RecordResult(t)
    \/ ScenarioResult(t)
    \/ SimulationError(t)
    \/ Finish(t)

Finished(t) == pc[t] \in {"done", "failed"}

\* Two calls in one process, one after the other: the second call starts once
\* the first has returned or raised.
SeqNext == Step(1) \/ (Finished(1) /\ Step(2))

SpecSeq == Init /\ [][SeqNext]_vars

\* Two calls in one process on concurrent threads (two background job threads,
\* or two requests served at once): the threads interleave between trials.
SharedNext == \E t \in Threads : Step(t)

SpecShared == Init /\ [][SharedNext]_vars

\* The call of optimize made by the job of thread t, on the input built from
\* the job's matches.
JobOptimize(t) ==
    /\ job[t].status = "running"
    /\ Optimize(t, {job[t].request})

JobOptimizeRejected(t) ==
    /\ job[t].status = "running"
    /\ OptimizeRejected(t, {job[t].request})

\* A background job, from its creation to the end of its thread.
JobNext ==
    \/ CreateOptimizationJob(1, JobRequests)
    \/ RunOptimizationJob(1)
    \/ RunOptimizationJobRaises(1)
    \/ GetOptimizationResult(1)
    \/ JobOptimize(1)
    \/ JobOptimizeRejected(1)
    \/ NextCombination(1)
    \/ Trial(1)
    \/ RecordResult(1)
    \/ SimulationError(1)
    \/ Finish(1)
    \/ JobCompleted(1)
    \/ JobFailed(1)

SpecJob == Init /\ [][JobNext]_vars

\* The classification of one match.
ClassifierNext == GroupOdds \/ Classify

SpecClassifier == Init /\ [][ClassifierNext]_vars

\* The requests that write picks, and their commit.
PicksWriter(t) ==
    \/ CreateOrUpdatePick(t)
    \/ UpdatePick(t)
    \/ DeletePick(t)
    \/ BulkCreatePicks(t)
    \/ Commit(t)

\* The requests that lock and unlock, and their commit.
PicksLocker(t) ==
    \/ LockUserPicks(t)
    \/ UnlockUserPicks(t)
    \/ Commit(t)

\* Pick requests served one after the other, the statuses of the matches
\* changing between two requests.
PicksNext ==
    \/ PicksWriter(1)
    \/ PicksLocker(1)
    \/ MatchStatusChanges

SpecPicks == Init /\ [][PicksNext]_vars

\* A thread that writes picks and a thread that locks and unlocks them,
\* serving their requests at once, for matches that stay open.
PicksSharedNext ==
    \/ PicksWriter(1)
    \/ PicksLocker(2)

SpecPicksShared == Init /\ [][PicksSharedNext]_vars

\* ------------------------------------------------------------------- claims

RECURSIVE Pow2(_)
Pow2(n) == IF n = 0 THEN 1 ELSE 2 * Pow2(n - 1)

\* The call of thread t is an optimize call that passed _validate_input.
Accepted(t) ==
    /\ pc[t] # "idle"
    /\ input[t].op = "optimize"
    /\ ValidateInput(input[t]) = ""

\* The call of thread t returned an OptimizationResult.
Returned(t) == pc[t] = "done" /\ result[t].kind = "result"

\* C1: for U unsafe matches the enumerator yields exactly 2^U combinations,
\* pairwise distinct, each giving one of the two sides to every unsafe match
\* and to nothing else.
C1_EnumeratesAllCombinations ==
    \A t \in Threads :
        Accepted(t) =>
            LET combos == unsafe_combinations[t]
                unsafe == input[t].unsafe_matches
            IN /\ Len(combos) = Pow2(Cardinality(unsafe))
               /\ \A i, j \in DOMAIN combos : i # j => combos[i] # combos[j]
               /\ \A i \in DOMAIN combos :
                     /\ DOMAIN combos[i] = unsafe
                     /\ \A m \in unsafe : combos[i][m] \in {"team_a", "team_b"}

\* C1 witness: a call with two unsafe matches has its four combinations.
C1_Witness ==
    \E t \in Threads :
        /\ Accepted(t)
        /\ Cardinality(input[t].unsafe_matches) = 2
        /\ Len(unsafe_combinations[t]) = 4

\* C2: some ceiling below the largest unsafe-match count of the requests is
\* enforced: no call with more unsafe matches than the ceiling gets as far as
\* a simulation, it fails with ExcessiveSearchSpace instead.
C2_CeilingEnforced ==
    \E ceiling \in 0..(MaxN - 1) :
        \A t \in Threads :
            (input[t].op = "optimize" /\ Cardinality(input[t].unsafe_matches) > ceiling) =>
                /\ simulations[t] = 0
                /\ pc[t] # "done"
                /\ pc[t] = "failed" => error[t] = "ExcessiveSearchSpace"

\* C3: the distribution reported for the winner has a target probability at
\* least that of every enumerated candidate.
C3_WinnerHasHighestTargetProbability ==
    \A t \in Threads :
        Returned(t) =>
            LET dist == result[t].value.score_distribution
                won == TargetNumerator(dist, input[t].target_score)
            IN /\ Len(all_results[t]) = Len(unsafe_combinations[t])
               /\ \A i \in DOMAIN all_results[t] :
                     all_results[t][i].target_num * dist.total
                         <= won * all_results[t][i].score_distribution.total

\* C3 witness: the winner is not the first candidate, which it beats strictly.
C3_Witness ==
    \E t \in Threads :
        /\ Returned(t)
        /\ best_combination[t] > 1
        /\ all_results[t][1].target_num < all_results[t][best_combination[t]].target_num

\* C4: with zero unsafe matches exactly one candidate is simulated and every
\* returned pick is the higher-probability side of the match at its position.
C4_ZeroUnsafeReturnsSafePicks ==
    \A t \in Threads :
        (Returned(t) /\ input[t].unsafe_matches = {}) =>
            /\ simulations[t] = 1
            /\ Len(all_results[t]) = 1
            /\ \A i \in DOMAIN result[t].value.optimal_picks :
                  i \in DOMAIN input[t].odds_vector =>
                      result[t].value.optimal_picks[i] = TeamName(input[t].odds_vector[i])

\* The masses of dist are 1 at `score` and 0 elsewhere.
AllMassAt(dist, score) ==
    /\ dist.total > 0
    /\ score + 1 \in DOMAIN dist.counts
    /\ \A k \in DOMAIN dist.counts :
          dist.counts[k] = (IF k = score + 1 THEN dist.total ELSE 0)

\* The standalone simulation of thread t has ended, with a result or an error.
Simulated(t) == input[t].op = "simulate" /\ pc[t] \in {"done", "failed"}

\* C5: the distribution returned for a slate of N matches has N + 1 entries.
C5_DistributionHasNPlusOneEntries ==
    \A t \in Threads :
        (input[t].op = "simulate" /\ pc[t] = "done") =>
            Len(result[t].score_distribution.counts) = Len(input[t].odds_vector) + 1

\* C6: every trial is tallied, so the histogram of a finished simulation sums
\* to the number of trials and the simulation does not fail.
C6_EveryTrialTallied ==
    \A t \in Threads :
        /\ error[t] # "ZeroDivisionError"
        /\ (input[t].op = "simulate" /\ pc[t] = "done") =>
              result[t].score_distribution.total = NumSimulations

\* Every pick of the vector is certain to be right (wrong, for right = FALSE).
Certain(odds_vector, picks, right) ==
    /\ Len(picks) = Len(odds_vector)
    /\ \A i \in DOMAIN picks :
          IF (picks[i] = 1) = right THEN odds_vector[i] = 100 ELSE odds_vector[i] = 0

\* C7: a simulation whose picks are all certain to be right returns a
\* distribution with all its mass at score N.
C7_AlwaysCorrectScoresN ==
    \A t \in Threads :
        (Simulated(t) /\ Certain(input[t].odds_vector, input[t].picks, TRUE)) =>
            /\ pc[t] = "done"
            /\ AllMassAt(result[t].score_distribution, Len(input[t].odds_vector))

\* C8: a simulation whose picks are all certain to be wrong returns a
\* distribution with all its mass at score 0, in simulate_scenarios and in the
\* optimize loop.
C8_AlwaysWrongScoresZero ==
    \A t \in Threads :
        /\ (Simulated(t) /\ Certain(input[t].odds_vector, input[t].picks, FALSE)) =>
              /\ pc[t] = "done"
              /\ AllMassAt(result[t].score_distribution, 0)
        /\ \A i \in DOMAIN all_results[t] :
              Certain(input[t].odds_vector, all_results[t][i].pick_vector, FALSE) =>
                  AllMassAt(all_results[t][i].score_distribution, 0)
        /\ (pc[t] = "failed" /\ error[t] = "ZeroDivisionError") =>
              ~Certain(input[t].odds_vector, pick_vector[t], FALSE)

\* C8 witness: a slate longer than the histogram, every pick certain to be
\* wrong, simulated with all mass at 0.
C8_Witness ==
    \E t \in Threads :
        /\ Simulated(t)
        /\ pc[t] = "done"
        /\ Len(input[t].odds_vector) > 9
        /\ Certain(input[t].odds_vector, input[t].picks, FALSE)
        /\ AllMassAt(result[t].score_distribution, 0)

\* C9: two calls of optimize with identical input, in a process whose
\* generator was seeded once, return identical results.
C9_SameInputSameResult ==
    \A t, u \in Threads :
        (Returned(t) /\ Returned(u) /\ input[t] = input[u]) => result[t] = result[u]

\* Thread t is in the middle of a simulation and takes no part in the step.
Waiting(t) ==
    /\ pc[t] = "simulate"
    /\ pc'[t] = pc[t]
    /\ scores'[t] = scores[t]
    /\ all_results'[t] = all_results[t]

\* C10: calls share no mutable state: a step of one call leaves unchanged the
\* generator state that another call in progress draws from.
C10_NoSharedMutableState ==
    [][\A t \in Threads : Waiting(t) => rng' = rng]_vars

\* The call of thread t is an optimize call of a request with no matches.
EmptyRequest(t) ==
    /\ pc[t] # "idle"
    /\ input[t].op = "optimize"
    /\ input[t].odds_vector = <<>>

\* C11: a request with an empty win-probability vector makes optimize fail
\* with the validation error for an empty vector, and nothing is returned.
C11_EmptyVectorRejected ==
    \A t \in Threads :
        EmptyRequest(t) =>
            /\ pc[t] = "failed"
            /\ error[t] = "Odds vector cannot be empty"
            /\ result[t] = NoResult

\* C11 witness: a call with an empty vector has failed.
C11_Witness ==
    \E t \in Threads : EmptyRequest(t) /\ pc[t] = "failed"

\* The messages of the errors _validate_input raises.
ValidationErrors ==
    {"Odds vector cannot be empty", "All probabilities must be between 0 and 1",
     "Total matches exceed odds vector length", "Swiss format requires exactly 9 picks"}

\* C12: a validation failure is raised before any simulation: a call that
\* failed with a validation error has invoked the simulator zero times and
\* evaluated no candidate.
C12_ValidationBeforeSimulation ==
    \A t \in Threads :
        (pc[t] = "failed" /\ error[t] \in ValidationErrors) =>
            /\ simulations[t] = 0
            /\ scores[t] = EmptyBag
            /\ all_results[t] = <<>>

\* C12 witness: a call failed for more safe and unsafe matches than odds.
C12_Witness ==
    \E t \in Threads :
        /\ pc[t] = "failed"
        /\ error[t] = "Total matches exceed odds vector length"
        /\ Cardinality(input[t].safe_matches) + Cardinality(input[t].unsafe_matches)
              > Len(input[t].odds_vector)

\* C13: optimize rejects a request exactly when its declared slate size,
\* total_picks, differs from the number of matches in the request: a call
\* that no other validation rule rejects fails with the slate-size error if
\* the two differ and passes validation if they are equal.
C13_SlateSizeChecked ==
    \A t \in Threads :
        (/\ pc[t] # "idle"
         /\ input[t].op = "optimize"
         /\ ValidateInput(input[t]) \in {"", "Swiss format requires exactly 9 picks"}) =>
            ((pc[t] = "failed" /\ error[t] = "Swiss format requires exactly 9 picks")
                <=> input[t].total_picks # Len(input[t].odds_vector))

\* The match-id list of thread t's optimize call is absent or shorter than
\* the odds vector.
MissingMatchIds(t) ==
    /\ pc[t] # "idle"
    /\ input[t].op = "optimize"
    /\ Len(input[t].match_ids) < Len(input[t].odds_vector)

\* C14: a call whose match ids do not cover the odds vector ends in a
\* validation error raised before any simulation, and no returned result was
\* computed from a pick vector shorter than the slate.
C14_MissingMatchIdsRejected ==
    \A t \in Threads :
        /\ (MissingMatchIds(t) /\ Finished(t)) =>
              /\ pc[t] = "failed"
              /\ error[t] \in ValidationErrors
              /\ simulations[t] = 0
        /\ Returned(t) =>
              \A i \in DOMAIN all_results[t] :
                  Len(all_results[t][i].pick_vector) >= Len(input[t].odds_vector)

\* The candidates of thread t's call are all evaluated and its result is the
\* one _create_result builds from them.
CompleteResult(t) ==
    /\ result[t].kind = "result"
    /\ best_combination[t] \in DOMAIN all_results[t]
    /\ Len(all_results[t]) = Len(unsafe_combinations[t])
    /\ result[t].value =
          CreateResult(input[t], all_results[t][best_combination[t]], all_results[t])

\* The thread of job t has ended.
JobEnded(t) == worker[t] = "ended"

Classified == classification.kind = "classification"

\* Every observation's two probabilities sum to 1.
Normalized(observations) ==
    \A i \in DOMAIN observations :
        observations[i].team_a_odds + observations[i].team_b_odds = 100

\* The fractions a and b sum to 1 (100 percent).
SumToOne(a, b) == a[1] * b[2] + b[1] * a[2] = 100 * a[2] * b[2]

\* C16: for a non-empty list of observations whose probabilities each sum to
\* 1, the consensus probabilities of the two teams sum to 1, whichever sources
\* are present.
C16_ConsensusSumsToOne ==
    (Classified /\ match_odds # <<>> /\ Normalized(match_odds)) =>
        SumToOne(classification.value.consensus_team_a_prob,
                 classification.value.consensus_team_b_prob)

\* C16 witness: two sources, one of them unknown to the weights, neither
\* at 50/50, classified with consensus probabilities that sum to 1.
C16_Witness ==
    /\ Classified
    /\ Len(match_odds) = 2
    /\ Normalized(match_odds)
    /\ match_odds[1].source = "other"
    /\ match_odds[2].source = "bookmaker_consensus"
    /\ match_odds[1].team_a_odds = 25
    /\ match_odds[2].team_a_odds = 100
    /\ SumToOne(classification.value.consensus_team_a_prob,
                classification.value.consensus_team_b_prob)

\* The fraction a is at least the fraction b.
AtLeast(a, b) == ~Greater(b, a)

\* C17: the favored side is the one with the larger consensus probability,
\* team A when the two are equal, and the implied win rate is that side's.
C17_TiesFavorTeamA ==
    (Classified /\ match_odds # <<>>) =>
        LET c == classification.value
        IN IF AtLeast(c.consensus_team_a_prob, c.consensus_team_b_prob)
           THEN /\ c.consensus_favorite = "team_a"
                /\ c.implied_win_rate = c.consensus_team_a_prob
           ELSE /\ c.consensus_favorite = "team_b"
                /\ c.implied_win_rate = c.consensus_team_b_prob

\* C18: classifying zero observations yields the degenerate classification,
\* 50/50, not safe, confidence 0 and agreement 0, with a sources_count of 0.
C18_NoDataHasSourcesCountZero ==
    (Classified /\ match_odds = <<>>) =>
        LET c == classification.value
        IN /\ c.is_safe = FALSE
           /\ c.confidence[1] = 0
           /\ c.source_agreement[1] = 0
           /\ c.implied_win_rate[1] = 50 * c.implied_win_rate[2]
           /\ "sources_count" \in DOMAIN c
           /\ c.sources_count = 0

ExpectedScore(r) == <<r.expected_num, r.score_distribution.total>>

\* Candidate a ties candidate b on target probability.
TiedOnTarget(a, b) ==
    /\ ~Greater(TargetProbability(a), TargetProbability(b))
    /\ ~Greater(TargetProbability(b), TargetProbability(a))

\* C19: among the candidates with the highest target probability the winner
\* has the highest expected score, and among those tied on both it is the
\* first one enumerated.
C19_TiesBrokenByExpectedScore ==
    \A t \in Threads :
        Returned(t) =>
            LET winner == all_results[t][best_combination[t]]
            IN \A i \in DOMAIN all_results[t] :
                  TiedOnTarget(all_results[t][i], winner) =>
                      /\ ~Greater(ExpectedScore(all_results[t][i]), ExpectedScore(winner))
                      /\ ~Greater(ExpectedScore(winner), ExpectedScore(all_results[t][i])) =>
                            best_combination[t] <= i

\* The side of a safe match with the larger probability, team A on a tie.
SafePick(p) == IF p >= 50 THEN "team_a" ELSE "team_b"

\* C20: for every safe match the simulated pick and the reported pick are the
\* side whose probability is greater than 0.5, side A at exactly 0.5.
C20_SafeTiesPickTeamA ==
    \A t \in Threads :
        Returned(t) =>
            \A i \in DOMAIN input[t].match_ids \cap DOMAIN input[t].odds_vector :
                input[t].match_ids[i] \in input[t].safe_matches =>
                    /\ all_results[t][best_combination[t]].pick_vector[i]
                          = (IF SafePick(input[t].odds_vector[i]) = "team_a" THEN 1 ELSE 0)
                    /\ result[t].value.optimal_picks[i] = SafePick(input[t].odds_vector[i])

\* C21: with K candidates the result lists min(3, K - 1) alternatives, ranked
\* 2, 3, 4, in non-increasing target probability from the winner's down, each
\* a candidate that was evaluated, no two the same and none the winner, and
\* no candidate left out has a higher target probability than one listed.
C21_AlternativesFollowTheWinner ==
    \A t \in Threads :
        Returned(t) =>
            LET alts == result[t].value.alternative_strategies
                winner == all_results[t][best_combination[t]]
                target(a) == <<a.target_num, a.total>>
            IN /\ Len(alts) = Min(3, Len(all_results[t]) - 1)
               /\ \A i \in DOMAIN alts :
                     /\ alts[i].rank = i + 1
                     /\ alts[i].picks # winner.combination
                     /\ \E j \in DOMAIN all_results[t] :
                           /\ all_results[t][j].combination = alts[i].picks
                           /\ all_results[t][j].target_num = alts[i].target_num
                           /\ all_results[t][j].expected_num = alts[i].expected_num
                     /\ ~Greater(target(alts[i]), TargetProbability(winner))
                     /\ \A j \in DOMAIN all_results[t] :
                           (/\ j # best_combination[t]
                            /\ \A k \in DOMAIN alts : alts[k].picks # all_results[t][j].combination)
                               => ~Greater(TargetProbability(all_results[t][j]), target(alts[i]))
                     /\ \A j \in DOMAIN alts :
                           /\ i < j => ~Greater(target(alts[j]), target(alts[i]))
                           /\ i # j => alts[i].picks # alts[j].picks

\* C21 witness: four candidates, the winner not the first of them, and three
\* alternatives reported.
C21_Witness ==
    \E t \in Threads :
        /\ Returned(t)
        /\ Len(all_results[t]) = 4
        /\ best_combination[t] > 1
        /\ Len(result[t].value.alternative_strategies) = 3

\* `score` is the smallest score at which the cumulative mass of dist reaches
\* level / 1000.
SmallestReaching(dist, level, score) ==
    /\ score + 1 \in DOMAIN dist.counts
    /\ Cumulative(dist, score + 1) * 1000 >= level * dist.total
    /\ \A k \in 0..(score - 1) : Cumulative(dist, k + 1) * 1000 < level * dist.total

\* C22: the reported interval (lo, hi) of the winning distribution has lo the
\* smallest score with cumulative mass at least 0.025 and hi the smallest with
\* cumulative mass at least 0.975, and 0 <= lo <= hi <= N.
C22_ConfidenceInterval ==
    \A t \in Threads :
        Returned(t) =>
            LET dist == result[t].value.score_distribution
                lo == result[t].value.confidence_interval[1]
                hi == result[t].value.confidence_interval[2]
            IN /\ dist = all_results[t][best_combination[t]].score_distribution
               /\ SmallestReaching(dist, 25, lo)
               /\ SmallestReaching(dist, 975, hi)
               /\ 0 <= lo
               /\ lo <= hi
               /\ hi <= Len(input[t].odds_vector)

\* C22 witness: a returned interval whose ends differ and do not start at 0.
C22_Witness ==
    \E t \in Threads :
        /\ Returned(t)
        /\ 0 < result[t].value.confidence_interval[1]
        /\ result[t].value.confidence_interval[1] < result[t].value.confidence_interval[2]

\* C23: the classifier's confidence is 0 when the favored side's consensus
\* probability is 0.5, 1 when it is 1, and non-decreasing in it: a match
\* classified from one observation with a favored-side probability at least
\* this one's has a confidence at least this one's.
C23_ConfidenceGrowsWithCertainty ==
    (Classified /\ match_odds # <<>> /\ Normalized(match_odds)) =>
        LET c == classification.value
        IN /\ c.implied_win_rate[1] = 50 * c.implied_win_rate[2] => c.confidence[1] = 0
           /\ c.implied_win_rate[1] = 100 * c.implied_win_rate[2] =>
                 c.confidence[1] = 100 * c.confidence[2]
           /\ \A odds \in Observations :
                 LET d == ClassifySingleMatch(<<odds>>)
                 IN (Normalized(<<odds>>) /\ AtLeast(d.implied_win_rate, c.implied_win_rate))
                        => AtLeast(d.confidence, c.confidence)

\* C24: the reported strategy_confidence equals min(expected_score / N, 1)
\* for the N matches of the request.
C24_StrategyConfidenceOverSlate ==
    \A t \in Threads :
        Returned(t) =>
            LET n == Len(input[t].odds_vector)
                value == result[t].value
                confidence == value.risk_analysis.strategy_confidence
                expected == <<value.expected_num, value.score_distribution.total>>
            IN IF expected[1] < n * expected[2]
               THEN confidence[1] * n * expected[2] = expected[1] * confidence[2]
               ELSE confidence[1] = confidence[2]

\* C25: the reported optimal_picks are, position by position, the picks of
\* the winning candidate's simulated pick vector: team_a for 1, team_b for 0.
C25_ReportedPicksAreSimulatedPicks ==
    \A t \in Threads :
        Returned(t) =>
            LET simulated == all_results[t][best_combination[t]].pick_vector
                reported == result[t].value.optimal_picks
            IN /\ Len(reported) = Len(simulated)
               /\ \A i \in DOMAIN reported :
                     reported[i] = (IF simulated[i] = 1 THEN "team_a" ELSE "team_b")

\* C26: every match_details entry of the job result endpoint carries the
\* pick the optimizer computed for the entry's own match, that is the optimal
\* pick at the position the match has in match_id_order.
C26_DetailsPairMatchWithItsPick ==
    \A t \in Threads :
        match_details[t].kind = "details" =>
            \A i \in DOMAIN match_details[t].value :
                LET entry == match_details[t].value[i]
                    stored == job[t].result
                IN entry.selected_team =
                       stored.value.optimal_picks[IndexOf(stored.match_id_order, entry.match_id)]

\* The moves of a job's status: created as 'pending', then 'running', then
\* 'completed' or 'failed'.
ForwardMoves ==
    {<<"none", "pending">>, <<"pending", "running">>,
     <<"running", "completed">>, <<"running", "failed">>}

\* C27: every step leaves a job's status as it is or moves it forward, from
\* 'pending' to 'running' and from 'running' to 'completed' or 'failed'; a
\* 'completed' or 'failed' job keeps its status, and a job that holds a
\* stored result is 'completed'.
C27_StatusMovesForward ==
    [][\A t \in Threads :
          /\ \/ job'[t].status = job[t].status
             \/ <<job[t].status, job'[t].status>> \in ForwardMoves
          /\ job'[t].result # NoResult => job'[t].status = "completed"]_vars

\* A completed job whose result was fetched after its thread ended.
C27_Witness ==
    \E t \in Threads :
        /\ job[t].status = "completed"
        /\ job[t].result # NoResult
        /\ worker[t] = "ended"
        /\ match_details[t].kind = "details"

\* C28: once the background thread of a job has ended, the job's status is
\* 'completed' or 'failed'; no job is left 'pending' or 'running'.
C28_EndedThreadLeavesTerminalStatus ==
    \A t \in Threads :
        worker[t] = "ended" => job[t].status \in {"completed", "failed"}

\* C29: a pick whose is_locked is stored as true is not deleted by any step
\* and keeps its selected_team, confidence and pick_type, under every
\* interleaving of the handlers.
C29_LockedPickUnchanged ==
    [][\A m \in PickMatches :
          (pick_table[m].exists /\ pick_table[m].is_locked) =>
              /\ pick_table'[m].exists
              /\ pick_table'[m].selected_team = pick_table[m].selected_team
              /\ pick_table'[m].confidence = pick_table[m].confidence
              /\ pick_table'[m].pick_type = pick_table[m].pick_type]_vars

\* The pick of a match that is not open is not created, not deleted, keeps
\* its selected team and is not unlocked by the step.
ClosedPicksKept ==
    \A m \in PickMatches :
        match_status[m] \in {"completed", "cancelled"} =>
            /\ pick_table'[m].exists = pick_table[m].exists
            /\ pick_table[m].exists =>
                  /\ pick_table'[m].selected_team = pick_table[m].selected_team
                  /\ pick_table[m].is_locked => pick_table'[m].is_locked

\* The step answers a request of thread t that asked for a match that is
\* not open.
AnswersClosed(t) ==
    /\ handler'[t] # handler[t]
    /\ handler'[t].phase = "done"
    /\ handler'[t].closed # {}

\* The picks handled through one pick, and the ones handled in groups.
SinglePickHandlers == {"create_or_update_pick", "update_pick", "delete_pick"}

\* C30 as stated: no step creates, deletes, unlocks or changes the team of
\* the pick of a match that is 'completed' or 'cancelled', and every request
\* for such a match is answered with an error and leaves the stored picks
\* unchanged.
C30_ClosedRequestsRejected ==
    [][/\ ClosedPicksKept
       /\ \A t \in Threads :
             AnswersClosed(t) =>
                 /\ handler'[t].response >= 400
                 /\ pick_table' = pick_table]_vars

\* C30, amended: no step creates, deletes, unlocks or changes the team of
\* the pick of a match that is 'completed' or 'cancelled'.  A request of
\* create_or_update_pick, update_pick or delete_pick for such a match is
\* answered with an error and leaves the stored picks unchanged;
\* bulk_create_picks lists the match in its errors and unlock_user_picks
\* skips the pick, and both leave the picks of the matches that are not open
\* as they were.
C30_ClosedPicksKept ==
    [][/\ ClosedPicksKept
       /\ \A t \in Threads :
             AnswersClosed(t) =>
                 /\ handler'[t].op \in SinglePickHandlers =>
                       /\ handler'[t].response >= 400
                       /\ pick_table' = pick_table
                 /\ handler'[t].op = "bulk_create_picks" =>
                       handler'[t].closed \subseteq handler'[t].errors
                 /\ \A m \in handler'[t].closed : pick_table'[m] = pick_table[m]]_vars

\* A bulk request that was answered with success although one of its
\* matches, for which a pick is stored, was not open.
C30_Witness ==
    \E t \in Threads :
        /\ handler[t].phase = "done"
        /\ handler[t].op = "bulk_create_picks"
        /\ handler[t].response = 200
        /\ \E m \in handler[t].closed :
              /\ match_status[m] \in {"completed", "cancelled"}
              /\ pick_table[m].exists

====
